---- MODULE Spec2Model ----
(***************************************************************************)
(* The Wikipedia software robot (wiki_robot.py): the batch loop of         *)
(* WikiRobot.run over a browsing session, article verification, date       *)
(* parsing and the WikiScientist record.                                   *)
(* Python strings that the code takes apart (URLs, titles, article names,  *)
(* date texts) are sequences of one-character strings.                     *)
(***************************************************************************)
EXTENDS Integers, Sequences, FiniteSets, TLC

\* ---------------------------------------------------------------- bounds
MaxRuns == 2
MaxArticles == 2
MaxSessions == 2
MaxPast == 1

\* ------------------------------------------------------- string literals
\* WikiRobot.__init__: self.url = "https://www.wikipedia.org"
url == <<"h", "t", "t", "p", "s", ":", "/", "/", "w", "w", "w", ".", "w", "i", "k", "i", "p", "e", "d", "i", "a", ".", "o", "r", "g">>

\* article names
AlanTuring == <<"A", "l", "a", "n", " ", "T", "u", "r", "i", "n", "g">>
MarieCurie == <<"M", "a", "r", "i", "e", " ", "C", "u", "r", "i", "e">>
alan_turing_lc == <<"a", "l", "a", "n", " ", "t", "u", "r", "i", "n", "g">>
StephenHawking == <<"S", "t", "e", "p", "h", "e", "n", " ", "H", "a", "w", "k", "i", "n", "g">>

\* locations a browser can report
LocTuring == <<"h", "t", "t", "p", "s", ":", "/", "/", "e", "n", ".", "w", "i", "k", "i", "p", "e", "d", "i", "a", ".", "o", "r", "g", "/", "w", "i", "k", "i", "/", "A", "l", "a", "n", "_", "T", "u", "r", "i", "n", "g">>
LocCurie == <<"h", "t", "t", "p", "s", ":", "/", "/", "e", "n", ".", "w", "i", "k", "i", "p", "e", "d", "i", "a", ".", "o", "r", "g", "/", "w", "i", "k", "i", "/", "M", "a", "r", "i", "e", "_", "C", "u", "r", "i", "e">>
LocSearch == <<"h", "t", "t", "p", "s", ":", "/", "/", "e", "n", ".", "w", "i", "k", "i", "p", "e", "d", "i", "a", ".", "o", "r", "g", "/", "w", "/", "i", "n", "d", "e", "x", ".", "p", "h", "p", "?", "s", "e", "a", "r", "c", "h", "=", "x">>
LocUpper == <<"h", "t", "t", "p", "s", ":", "/", "/", "E", "N", ".", "W", "I", "K", "I", "P", "E", "D", "I", "A", ".", "O", "R", "G", "/", "w", "i", "k", "i", "/", "A", "l", "a", "n", "_", "T", "u", "r", "i", "n", "g">>
LocOther == <<"h", "t", "t", "p", "s", ":", "/", "/", "w", "w", "w", ".", "w", "i", "k", "i", "q", "u", "o", "t", "e", ".", "o", "r", "g", "/", "w", "i", "k", "i", "/", "A", "l", "a", "n", "_", "T", "u", "r", "i", "n", "g">>
LocBlank == <<"a", "b", "o", "u", "t", ":", "b", "l", "a", "n", "k">>

\* page titles
TitleTuring == <<"A", "l", "a", "n", " ", "T", "u", "r", "i", "n", "g", " ", "-", " ", "W", "i", "k", "i", "p", "e", "d", "i", "a">>
TitleTuringUpper == <<"A", "L", "A", "N", " ", "T", "U", "R", "I", "N", "G", " ", "-", " ", "W", "i", "k", "i", "p", "e", "d", "i", "a">>
TitleCurie == <<"M", "a", "r", "i", "e", " ", "C", "u", "r", "i", "e", " ", "-", " ", "W", "i", "k", "i", "p", "e", "d", "i", "a">>
TitleHawking == <<"S", "t", "e", "p", "h", "e", "n", " ", "H", "a", "w", "k", "i", "n", "g", " ", "-", " ", "W", "i", "k", "i", "p", "e", "d", "i", "a">>
TitleSearch == <<"S", "e", "a", "r", "c", "h", " ", "r", "e", "s", "u", "l", "t", "s", " ", "-", " ", "W", "i", "k", "i", "p", "e", "d", "i", "a">>

\* textContent of the biography table cells
BornTuring == <<"1", "9", "1", "2", "-", "0", "6", "-", "2", "3">>
DiedTuring == <<"(", "1", "9", "5", "4", "-", "0", "6", "-", "0", "7", ")">>
BornCurie == <<"(", "1", "8", "6", "7", "-", "1", "1", "-", "0", "7", ")">>
DiedCurie == <<"(", "1", "9", "3", "4", "-", "0", "7", "-", "0", "4", ")">>
DiedProse == <<"7", " ", "J", "u", "n", "e", " ", "1", "9", "5", "4">>

\* ------------------------------------------------ Python string methods
UpperCase == <<"A","B","C","D","E","F","G","H","I","J","K","L","M",
               "N","O","P","Q","R","S","T","U","V","W","X","Y","Z">>
LowerCase == <<"a","b","c","d","e","f","g","h","i","j","k","l","m",
               "n","o","p","q","r","s","t","u","v","w","x","y","z">>

\* str.lower() on one character
lower_char(c) ==
    IF \E i \in 1..26 : UpperCase[i] = c
    THEN LowerCase[CHOOSE i \in 1..26 : UpperCase[i] = c]
    ELSE c

\* str.lower()
lower(s) == [i \in 1..Len(s) |-> lower_char(s[i])]

\* `sub in s` on strings: s has a slice equal to sub
In(sub, s) ==
    \E i \in 1..(Len(s) - Len(sub) + 1) : SubSeq(s, i, i + Len(sub) - 1) = sub

\* str.split(sep) for a one-character separator
RECURSIVE split(_, _)
split(s, sep) ==
    IF \A i \in 1..Len(s) : s[i] # sep
    THEN <<s>>
    ELSE LET k == CHOOSE i \in 1..Len(s) :
                      s[i] = sep /\ \A j \in 1..(i - 1) : s[j] # sep
         IN  <<SubSeq(s, 1, k - 1)>> \o split(SubSeq(s, k + 1, Len(s)), sep)

\* the outcome of a call: the exception it raised ("None" when it returned)
\* and the value it returned
Return(v) == [exc |-> "None", val |-> v]
Raise(e, v) == [exc |-> e, val |-> v]

\* ------------------------------------------------------ WikiRobot, pure
\* get_domain taking the component before the last one
get_domain_SecondToLast(u) ==
    LET parts == split(u, ".")
    IN  IF Len(parts) < 2
        THEN Raise("IndexError", <<>>)
        ELSE Return(lower(parts[Len(parts) - 1]))

\* WikiRobot.get_domain: url.split(".")[1].lower()
get_domain(u) ==
    LET parts == split(u, ".")
    IN  IF Len(parts) < 2
        THEN Raise("IndexError", <<>>)
        ELSE Return(lower(parts[2]))

\* is_at_article with the two tests joined by `or`
is_at_article_Or(article, location, title) ==
    LET home == get_domain(url)
        here == get_domain(location)
    IN  IF home.exc # "None" THEN Raise(home.exc, FALSE)
        ELSE IF here.exc # "None" THEN Raise(here.exc, FALSE)
        ELSE Return(home.val = here.val \/ In(lower(article), lower(title)))

\* WikiRobot.is_at_article, given what get_location() and get_title() return
is_at_article(article, location, title) ==
    LET home == get_domain(url)
        here == get_domain(location)
    IN  IF home.exc # "None" THEN Raise(home.exc, FALSE)
        ELSE IF here.exc # "None" THEN Raise(here.exc, FALSE)
        ELSE IF home.val # here.val THEN Return(FALSE)
        ELSE IF ~In(lower(article), lower(title)) THEN Return(FALSE)
        ELSE Return(TRUE)

\* ------------------------------------------------------------ dates
Digits == <<"0","1","2","3","4","5","6","7","8","9">>
IsDigit(c) == \E i \in 1..10 : Digits[i] = c
DigitVal(c) == (CHOOSE i \in 1..10 : Digits[i] = c) - 1

\* the number a string of digits denotes
RECURSIVE Num(_)
Num(s) == IF s = <<>> THEN 0
          ELSE 10 * Num(SubSeq(s, 1, Len(s) - 1)) + DigitVal(s[Len(s)])

IsLeap(y) == (y % 4 = 0 /\ y % 100 # 0) \/ y % 400 = 0
DaysIn(y, m) ==
    IF m = 2 THEN (IF IsLeap(y) THEN 29 ELSE 28)
    ELSE IF m \in {4, 6, 9, 11} THEN 30 ELSE 31

NoDate == [year |-> 0, month |-> 0, day |-> 0]

\* length of the text the %m directive takes at the head of s (0: no match):
\* 1[0-2] | 0[1-9] | [1-9], first alternative that fits
MonthMatch(s) ==
    IF Len(s) >= 2 /\ s[1] = "1" /\ s[2] \in {"0", "1", "2"} THEN 2
    ELSE IF Len(s) >= 2 /\ s[1] = "0" /\ IsDigit(s[2]) /\ s[2] # "0" THEN 2
    ELSE IF Len(s) >= 1 /\ IsDigit(s[1]) /\ s[1] # "0" THEN 1
    ELSE 0

\* length of the text the %d directive takes at the head of s (0: no match):
\* 3[0-1] | [1-2]\d | 0[1-9] | [1-9] | " "[1-9]
DayMatch(s) ==
    IF Len(s) >= 2 /\ s[1] = "3" /\ s[2] \in {"0", "1"} THEN 2
    ELSE IF Len(s) >= 2 /\ s[1] \in {"1", "2"} /\ IsDigit(s[2]) THEN 2
    ELSE IF Len(s) >= 2 /\ s[1] = "0" /\ IsDigit(s[2]) /\ s[2] # "0" THEN 2
    ELSE IF Len(s) >= 1 /\ IsDigit(s[1]) /\ s[1] # "0" THEN 1
    ELSE IF Len(s) >= 2 /\ s[1] = " " /\ IsDigit(s[2]) /\ s[2] # "0" THEN 2
    ELSE 0

\* datetime.datetime.strptime(s, "%Y-%m-%d").date()
strptime(s) ==
    IF Len(s) < 5 \/ (\E i \in 1..4 : ~IsDigit(s[i])) \/ s[5] # "-"
    THEN Raise("ValueError", NoDate)
    ELSE
      LET rest == SubSeq(s, 6, Len(s))
          ml   == MonthMatch(rest)
      IN  IF ml = 0 \/ Len(rest) < ml + 1 \/ rest[ml + 1] # "-"
          THEN Raise("ValueError", NoDate)
          ELSE
            LET dtxt == SubSeq(rest, ml + 2, Len(rest))
                dl   == DayMatch(dtxt)
                y    == Num(SubSeq(s, 1, 4))
                m    == Num(SubSeq(rest, 1, ml))
                d    == Num(IF dl > 0 /\ dtxt[1] = " " THEN SubSeq(dtxt, 2, dl)
                            ELSE SubSeq(dtxt, 1, dl))
            IN  IF dl = 0 \/ dl # Len(dtxt) \/ y < 1 \/ d > DaysIn(y, m)
                THEN Raise("ValueError", NoDate)
                ELSE Return([year |-> y, month |-> m, day |-> d])

\* _get_biography_date that leaves the parentheses in place
_get_biography_date_NoStrip(elements) ==
    IF elements = <<>> THEN Raise("ElementNotFound", NoDate) ELSE strptime(elements[1])
\* WikiScientistRobot._get_biography_date, given the elements the xpath
\* matches (each by its textContent)
_get_biography_date(elements) ==
    IF elements = <<>>
    THEN Raise("ElementNotFound", NoDate)
    ELSE LET t0 == elements[1]
             t1 == IF Len(t0) > 0 /\ t0[1] = "(" THEN SubSeq(t0, 2, Len(t0)) ELSE t0
             t2 == IF Len(t1) > 0 /\ t1[Len(t1)] = ")"
                   THEN SubSeq(t1, 1, Len(t1) - 1) ELSE t1
         IN  strptime(t2)

\* WikiScientistRobot._get_first_paragraph, given the matched paragraphs
_get_first_paragraph(elements) ==
    IF elements = <<>> THEN Raise("ElementNotFound", "") ELSE Return(elements[1])

\* get_age as the difference of the years alone
get_age_YearsOnly(date_of_birth, date_of_death) ==
    date_of_death.year - date_of_birth.year
\* get_age taking a year off on the birthday itself as well
get_age_BirthdayExcluded(date_of_birth, date_of_death) ==
    LET age == date_of_death.year - date_of_birth.year
    IN  IF date_of_death.month < date_of_birth.month
           \/ (date_of_death.month = date_of_birth.month
               /\ date_of_death.day <= date_of_birth.day)
        THEN age - 1
        ELSE age

\* WikiScientist.get_age
get_age(date_of_birth, date_of_death) ==
    LET age == date_of_death.year - date_of_birth.year
    IN  IF date_of_death.month < date_of_birth.month
           \/ (date_of_death.month = date_of_birth.month
               /\ date_of_death.day < date_of_birth.day)
        THEN age - 1
        ELSE age

\* the constructor passing the two dates to get_age in the other order
WikiScientist_DatesSwapped(name, date_of_birth, date_of_death, summary) ==
    [name |-> name, date_of_birth |-> date_of_birth,
     date_of_death |-> date_of_death, summary |-> summary,
     age |-> get_age(date_of_death, date_of_birth)]

\* WikiScientist.__init__
WikiScientist(name, date_of_birth, date_of_death, summary) ==
    [name |-> name, date_of_birth |-> date_of_birth,
     date_of_death |-> date_of_death, summary |-> summary,
     age |-> get_age(date_of_birth, date_of_death)]

NoScientist == WikiScientist(<<>>, NoDate, NoDate, "")

\* WikiScientistRobot.extract_from_article on the page the browser shows
extract_from_article(name, p) ==
    LET date_of_birth == _get_biography_date(p.born)
        date_of_death == _get_biography_date(p.died)
        first_paragraph == _get_first_paragraph(p.paragraphs)
    IN  IF date_of_birth.exc # "None" THEN Raise(date_of_birth.exc, NoScientist)
        ELSE IF date_of_death.exc # "None" THEN Raise(date_of_death.exc, NoScientist)
        ELSE IF first_paragraph.exc # "None"
             THEN Raise(first_paragraph.exc, NoScientist)
        ELSE Return(WikiScientist(name, date_of_birth.val, date_of_death.val,
                                  first_paragraph.val))

\* ------------------------------------------------------------ the web
\* what the browser shows: location, title, and the elements the three
\* xpaths of WikiScientistRobot match on the page
Page(location, title, born, died, paragraphs) ==
    [location |-> location, title |-> title, born |-> born, died |-> died,
     paragraphs |-> paragraphs]

\* a browser with no page loaded (also: no window)
BlankPage == Page(LocBlank, <<>>, <<>>, <<>>, <<>>)
\* the page search_article loads first: br.go_to(self.url)
HomePage == Page(url, <<"W", "i", "k", "i", "p", "e", "d", "i", "a">>, <<>>, <<>>, <<>>)

TuringPage == Page(LocTuring, TitleTuring, <<BornTuring>>, <<DiedTuring>>,
                   <<"Alan Mathison Turing ...">>)
CuriePage == Page(LocCurie, TitleCurie, <<BornCurie>>, <<DiedCurie>>,
                  <<"Maria Salomea Sklodowska-Curie ...">>)
SearchPage == Page(LocSearch, TitleSearch, <<>>, <<>>, <<"Search results">>)
\* an article whose biography table has no "Died" row
NoDiedPage == Page(LocTuring, TitleTuring, <<BornTuring>>, <<>>,
                   <<"Alan Mathison Turing ...">>)
\* an article whose "Died" cell is not an ISO date
ProsePage == Page(LocCurie, TitleCurie, <<BornCurie>>, <<DiedProse>>,
                  <<"Maria Salomea Sklodowska-Curie ...">>)

\* the pages a search can end on
WebPages == {TuringPage, CuriePage, SearchPage, NoDiedPage, ProsePage}

\* the articles a caller asks for
Subjects == {AlanTuring, MarieCurie}
ArticleLists == UNION {[1..n -> Subjects] : n \in 0..MaxArticles}

\* ------------------------------------------------------------ state
VARIABLES
    data,         \* WikiRobot.data
    browser_ids,  \* self.br.get_browser_ids()
    page,         \* what the current browser window shows
    pc,           \* position of the caller in run(); "idle" outside run()
    articles,     \* run's argument
    idx,          \* index of the article the for loop is at (0 before)
    result,       \* how the last run() ended: "None" or the escaped exception
    runs,         \* number of calls of run() so far
    base,         \* len(self.data) when the current run() was called
    log,          \* calls made and exceptions raised by the current run()
    reported,     \* the list create_report handed to create_html_report
    returned,     \* <<outcome, result>> of every finished run()
    call          \* a single call of a pure function: arguments and outcome

vars == <<data, browser_ids, page, pc, articles, idx, result, runs, base, log,
          reported, returned, call>>
robotVars == <<data, browser_ids, page, pc, articles, idx, result, runs, base, log,
               reported, returned>>

NoCall == [fn |-> "none"]

\* WikiRobot.__init__
Init ==
    /\ data = <<>>
    /\ browser_ids = <<>>
    /\ page = BlankPage
    /\ pc = "idle"
    /\ articles = <<>>
    /\ idx = 0
    /\ result = "None"
    /\ runs = 0
    /\ base = 0
    /\ log = <<>>
    /\ reported = <<>>
    /\ returned = {}
    /\ call = NoCall

\* -------------------------------------------------------- the browser
\* WikiRobot.is_browser_open
is_browser_open(ids) == Len(ids) > 0

\* open_browser that opens a browser only when none is open
open_available_browser_Guarded(ids) == IF Len(ids) > 0 THEN ids ELSE <<1>>
\* Selenium.open_available_browser: one more browser, with the next index
open_available_browser(ids) == Append(ids, Len(ids) + 1)

\* close_browser that closes the current browser only
close_all_browsers_Current(ids) == SubSeq(ids, 1, Len(ids) - 1)
\* Selenium.close_all_browsers
close_all_browsers(ids) == <<>>

\* exceptions raised while an article is processed
SubjectErrors == {"ElementNotFound", "RuntimeError", "IndexError",
                  "ValueError", "NoSuchWindowException"}

\* how a run() went, read off its log
Outcome(lg) ==
    IF \E i \in 1..Len(lg) : lg[i] \in SubjectErrors THEN "failed"
    ELSE IF \E i \in 1..Len(lg) : lg[i] = "close_browser" THEN "succeeded"
    ELSE "not_started"

\* ------------------------------------------- control flow of run()
\* run: an exception in the loop goes to the except clause, which starts
\* with close_browser
run_except_SkipClose == "show_dialog_error"
run_except_Continue == "for"
run_except == "except_close"

\* run: after close_browser the except clause shows the error dialog
run_except_second == "show_dialog_error"

\* run: the report made after the try statement instead of in its else clause
run_except_third_CloseAgain == "else_close"
run_except_third_Report == "create_report"
\* run: the except clause ends with return
run_except_third == "return"

\* run: the else clause going to report without close_browser
run_else_NoClose == "create_report"
\* run: the else clause starts with close_browser, then report
run_else == "else_close"
run_else_second == "create_report"

\* report: create_report, then show_dialog_completed
report_second == "show_dialog_completed"

\* run() ends: by return (res = "None") or by an exception that escapes
Exit(res, lg) ==
    /\ pc' = "idle"
    /\ result' = res
    /\ log' = lg
    /\ returned' = returned \cup {<<Outcome(lg), res>>}

Goto(p, lg) ==
    /\ pc' = p
    /\ log' = lg
    /\ UNCHANGED <<result, returned>>

\* ------------------------------------------------------------ run()
\* run() without its assertions on the arguments
RunCall_NoAssert(arts) ==
    /\ pc = "idle"
    /\ runs < MaxRuns
    /\ runs' = runs + 1
    /\ base' = Len(data)
    /\ articles' = arts
    /\ idx' = 0
    /\ reported' = <<>>
    /\ Goto("instructions", <<>>)
    /\ UNCHANGED <<data, browser_ids, page, call>>

\* run(articles, output_path) is called: the assertions on its arguments
RunCall(arts) ==
    /\ pc = "idle"
    /\ runs < MaxRuns
    /\ runs' = runs + 1
    /\ base' = Len(data)
    /\ articles' = arts
    /\ idx' = 0
    /\ reported' = <<>>
    /\ IF Len(arts) > 0
       THEN Goto("instructions", <<>>)
       ELSE Exit("AssertionError", <<"AssertionError">>)
    /\ UNCHANGED <<data, browser_ids, page, call>>

\* instructions inside the try statement and its failure passed over
Instructions_FailureIgnored ==
    /\ pc = "instructions"
    /\ \/ Goto("for", Append(log, "show_dialog_start"))
       \/ Goto("for", log \o <<"show_dialog_start", "DialogError">>)
    /\ UNCHANGED <<data, browser_ids, page, articles, idx, runs, base, reported, call>>

\* self.instructions(articles): show_dialog_start, outside the try statement
Instructions ==
    /\ pc = "instructions"
    /\ \/ Goto("for", Append(log, "show_dialog_start"))
       \/ Exit("DialogError", log \o <<"show_dialog_start", "DialogError">>)
    /\ UNCHANGED <<data, browser_ids, page, articles, idx, runs, base, reported, call>>

\* for article in articles: the next article, or the else clause
ForNext ==
    /\ pc = "for"
    /\ IF idx < Len(articles)
       THEN idx' = idx + 1 /\ Goto("get_content", log)
       ELSE idx' = idx /\ Goto(run_else, log)
    /\ UNCHANGED <<data, browser_ids, page, articles, runs, base, reported, call>>

\* get_content searching without opening a browser
GetContent_NoOpen ==
    /\ pc = "get_content"
    /\ Goto("search_article", log)
    /\ UNCHANGED <<data, browser_ids, page, articles, idx, runs, base, reported, call>>

\* get_content opening a browser for every article
GetContent_AlwaysOpen ==
    /\ pc = "get_content"
    /\ browser_ids' = open_available_browser(browser_ids)
    /\ page' = BlankPage
    /\ Goto("search_article", Append(log, "open_browser"))
    /\ UNCHANGED <<data, articles, idx, runs, base, reported, call>>

\* get_content: if not self.is_browser_open(): self.open_browser()
GetContent ==
    /\ pc = "get_content"
    /\ IF ~is_browser_open(browser_ids)
       THEN /\ browser_ids' = open_available_browser(browser_ids)
            /\ page' = BlankPage
            /\ Goto("search_article", Append(log, "open_browser"))
       ELSE /\ UNCHANGED <<browser_ids, page>>
            /\ Goto("search_article", log)
    /\ UNCHANGED <<data, articles, idx, runs, base, reported, call>>

\* get_content: self.search_article(article)
SearchArticle ==
    /\ pc = "search_article"
    /\ IF ~is_browser_open(browser_ids)
       THEN /\ Goto(run_except, log \o <<"search_article", "NoSuchWindowException">>)
            /\ UNCHANGED page
       ELSE \/ \E p \in WebPages :
                 /\ page' = p
                 /\ Goto("is_at_article", Append(log, "search_article"))
            \/ /\ page' = HomePage
               /\ Goto(run_except, log \o <<"search_article", "ElementNotFound">>)
    /\ UNCHANGED <<data, browser_ids, articles, idx, runs, base, reported, call>>

\* get_content: if not self.is_at_article(article): raise RuntimeError
IsAtArticle ==
    /\ pc = "is_at_article"
    /\ LET r == IF ~is_browser_open(browser_ids)
                THEN Raise("NoSuchWindowException", FALSE)
                ELSE is_at_article(articles[idx], page.location, page.title)
           lg == Append(log, "is_at_article")
       IN  IF r.exc # "None" THEN Goto(run_except, Append(lg, r.exc))
           ELSE IF ~r.val THEN Goto(run_except, Append(lg, "RuntimeError"))
           ELSE Goto("extract_from_article", lg)
    /\ UNCHANGED <<data, browser_ids, page, articles, idx, runs, base, reported, call>>

\* get_content: return self.extract_from_article(article), and run's
\* self.data.append of what it returns
ExtractFromArticle ==
    /\ pc = "extract_from_article"
    /\ LET r == IF ~is_browser_open(browser_ids)
                THEN Raise("NoSuchWindowException", NoScientist)
                ELSE extract_from_article(articles[idx], page)
           lg == Append(log, "extract_from_article")
       IN  IF r.exc # "None"
           THEN data' = data /\ Goto(run_except, Append(lg, r.exc))
           ELSE data' = Append(data, r.val) /\ Goto("for", lg)
    /\ UNCHANGED <<browser_ids, page, articles, idx, runs, base, reported, call>>

\* except: self.close_browser()
ExceptClose ==
    /\ pc = "except_close"
    /\ browser_ids' = close_all_browsers(browser_ids)
    /\ page' = BlankPage
    /\ Goto(run_except_second, Append(log, "close_browser"))
    /\ UNCHANGED <<data, articles, idx, runs, base, reported, call>>

\* except: self.show_dialog_error()
ShowDialogError ==
    /\ pc = "show_dialog_error"
    /\ \/ Goto(run_except_third, Append(log, "show_dialog_error"))
       \/ Exit("DialogError", log \o <<"show_dialog_error", "DialogError">>)
    /\ UNCHANGED <<data, browser_ids, page, articles, idx, runs, base, reported, call>>

\* else: self.close_browser()
ElseClose ==
    /\ pc = "else_close"
    /\ browser_ids' = close_all_browsers(browser_ids)
    /\ page' = BlankPage
    /\ Goto(run_else_second, Append(log, "close_browser"))
    /\ UNCHANGED <<data, articles, idx, runs, base, reported, call>>

\* report: self.create_report(output_path), which hands self.data to
\* create_html_report (that asserts the list is not empty)
CreateReport ==
    /\ pc = "create_report"
    /\ reported' = data
    /\ IF Len(data) = 0
       THEN Exit("AssertionError", log \o <<"create_report", "AssertionError">>)
       ELSE \/ Goto(report_second, Append(log, "create_report"))
            \/ Exit("RenderError", log \o <<"create_report", "RenderError">>)
    /\ UNCHANGED <<data, browser_ids, page, articles, idx, runs, base, call>>

\* report: self.show_dialog_completed(output_path)
ShowDialogCompleted ==
    /\ pc = "show_dialog_completed"
    /\ \/ Goto("return", Append(log, "show_dialog_completed"))
       \/ Exit("DialogError", log \o <<"show_dialog_completed", "DialogError">>)
    /\ UNCHANGED <<data, browser_ids, page, articles, idx, runs, base, reported, call>>

\* run returns None: the return of the except clause, or the end of run
ReturnNone ==
    /\ pc = "return"
    /\ Exit("None", log)
    /\ UNCHANGED <<data, browser_ids, page, articles, idx, runs, base, reported, call>>

\* ------------------------------------ the robot's other public methods
\* WikiRobot.open_browser, called outside run()
OpenBrowser ==
    /\ pc = "idle"
    /\ Len(browser_ids) < MaxSessions
    /\ browser_ids' = open_available_browser(browser_ids)
    /\ page' = BlankPage
    /\ UNCHANGED <<data, pc, articles, idx, result, runs, base, log, reported,
                   returned, call>>

\* WikiRobot.close_browser, called outside run()
CloseBrowser ==
    /\ pc = "idle"
    /\ browser_ids' = close_all_browsers(browser_ids)
    /\ page' = BlankPage
    /\ UNCHANGED <<data, pc, articles, idx, result, runs, base, log, reported,
                   returned, call>>

Next ==
    \/ \E arts \in ArticleLists : RunCall(arts)
    \/ Instructions
    \/ ForNext
    \/ GetContent
    \/ SearchArticle
    \/ IsAtArticle
    \/ ExtractFromArticle
    \/ ExceptClose
    \/ ShowDialogError
    \/ ElseClose
    \/ CreateReport
    \/ ShowDialogCompleted
    \/ ReturnNone
    \/ OpenBrowser
    \/ CloseBrowser

Spec == Init /\ [][Next]_vars

\* ------------------------------------------- one run() of a used robot
\* the records earlier calls of run() appended to self.data: run() only
\* ever appends to the list, nothing empties it
PastRecords == {extract_from_article(AlanTuring, TuringPage).val,
                extract_from_article(MarieCurie, CuriePage).val}
PastData == UNION {[1..n -> PastRecords] : n \in 0..MaxPast}

\* the robot between two calls of run(), one call still to come; log,
\* reported and returned record what happens from here on
InitRun ==
    /\ data \in PastData
    /\ browser_ids = <<>>
    /\ page = BlankPage
    /\ pc = "idle"
    /\ articles = <<>>
    /\ idx = 0
    /\ result = "None"
    /\ runs = MaxRuns - 1
    /\ base = 0
    /\ log = <<>>
    /\ reported = <<>>
    /\ returned = {}
    /\ call = NoCall

SpecRun == InitRun /\ [][Next]_vars

\* ------------------------------------- is_at_article, called on its own
VerifyArticles == {AlanTuring, alan_turing_lc, MarieCurie, StephenHawking, <<>>}
VerifyLocations == {LocTuring, LocCurie, LocSearch, LocUpper, LocOther, LocBlank}
VerifyTitles == {TitleTuring, TitleTuringUpper, TitleCurie, TitleHawking, TitleSearch}

InitVerify ==
    /\ data = <<>>
    /\ browser_ids = <<1>>
    /\ page \in {Page(l, t, <<>>, <<>>, <<>>) : l \in VerifyLocations, t \in VerifyTitles}
    /\ pc = "idle"
    /\ articles = <<>>
    /\ idx = 0
    /\ result = "None"
    /\ runs = 0
    /\ base = 0
    /\ log = <<>>
    /\ reported = <<>>
    /\ returned = {}
    /\ \E a \in VerifyArticles :
          call = [fn |-> "is_at_article", article |-> a, done |-> FALSE,
                  out |-> Return(FALSE)]

\* robot.is_at_article(article) with a browser open on some page
CallIsAtArticle ==
    /\ call.fn = "is_at_article"
    /\ ~call.done
    /\ call' = [call EXCEPT !.done = TRUE,
                            !.out = is_at_article(call.article, page.location,
                                                  page.title)]
    /\ UNCHANGED robotVars

NextVerify == CallIsAtArticle

SpecVerify == InitVerify /\ [][NextVerify]_vars


\* ------------------------------------------------------------ properties
\* number of occurrences of e in the log lg
Count(lg, e) == Cardinality({i \in 1..Len(lg) : lg[i] = e})
Occurs(lg, e) == \E i \in 1..Len(lg) : lg[i] = e

\* some article of the current run() failed
SubjectFailed == \E i \in 1..Len(log) : log[i] \in SubjectErrors

\* browser calls get_content makes for an article
ArticleOps == {"open_browser", "search_article", "is_at_article",
               "extract_from_article"}

\* C1: once an article of run() has failed, run() navigates, verifies and
\* extracts no more, neither for the failed article nor for a later one;
\* the only browser call after the failure is close_browser, and it is made.
C1_AbortsAfterFirstFailure ==
    \A i \in 1..Len(log) :
        log[i] \in SubjectErrors =>
            /\ \A j \in (i + 1)..Len(log) : log[j] \notin ArticleOps
            /\ pc = "idle" => \E j \in (i + 1)..Len(log) : log[j] = "close_browser"

\* a finished run() of two articles whose first article failed
C1_Witness ==
    /\ pc = "idle"
    /\ Len(articles) = 2
    /\ SubjectFailed
    /\ Count(log, "search_article") = 1
    /\ Occurs(log, "close_browser")

\* C2: a run() in which an article failed never calls create_report or
\* show_dialog_completed, hands no list to the renderer, and has called
\* show_dialog_error by the time it ends.
C2_FailureShowsErrorNotReport ==
    SubjectFailed =>
        /\ ~Occurs(log, "create_report")
        /\ ~Occurs(log, "show_dialog_completed")
        /\ reported = <<>>
        /\ pc \in {"return", "idle"} => Occurs(log, "show_dialog_error")

\* a run() that ended after its second article failed, a record extracted
C2_Witness ==
    /\ pc = "idle"
    /\ SubjectFailed
    /\ Len(data) > base
    /\ Occurs(log, "show_dialog_error")

\* C3: after a run() that failed, self.data holds none of the records the
\* run extracted before the failure: it is as long as when run() was called.
C3_PartialResultsDiscarded ==
    (pc = "idle" /\ SubjectFailed) => Len(data) = base

\* C4: the list a run() hands to the report renderer has one record per
\* article of that run, the i-th record carrying the i-th article's name.
C4_ReportMatchesArticles ==
    reported # <<>> =>
        /\ Len(reported) = Len(articles)
        /\ \A i \in 1..Len(reported) : reported[i].name = articles[i]

\* C5: when run() is about to call show_dialog_error, no browser is open;
\* and once an article has failed, show_dialog_error is never logged before
\* close_browser.
C5_ClosedBeforeErrorDialog ==
    /\ pc = "show_dialog_error" => ~is_browser_open(browser_ids)
    /\ \A i \in 1..Len(log) :
          log[i] = "show_dialog_error" =>
              \E j \in 1..(i - 1) : log[j] = "close_browser"

\* run() is about to show the error dialog, having used a browser
C5_Witness ==
    /\ pc = "show_dialog_error"
    /\ Occurs(log, "search_article")
    /\ SubjectFailed

\* C6: whenever run() ends, after a dialog, the report or a return, no
\* browser is left open.
C6_ClosedOnEveryExit ==
    [][(pc # "idle" /\ pc' = "idle") => ~is_browser_open(browser_ids')]_vars

\* an article other than the first was found not to be at its article
MismatchAfterFirst ==
    \E i \in 1..Len(log) :
        /\ log[i] = "RuntimeError"
        /\ Count(SubSeq(log, 1, i), "search_article") >= 2

\* C7: a run() over several articles in which an article other than the
\* first fails is_at_article calls close_browser exactly once.
C7_ClosedExactlyOnce ==
    (Len(articles) > 1 /\ MismatchAfterFirst) =>
        /\ Count(log, "close_browser") <= 1
        /\ pc = "idle" => Count(log, "close_browser") = 1

\* a finished run() whose second article failed is_at_article
C7_Witness ==
    /\ pc = "idle"
    /\ Len(articles) > 1
    /\ MismatchAfterFirst
    /\ Count(log, "close_browser") = 1

\* C8: a run() that has ended either rendered the report and then showed
\* the completion dialog, with no error dialog, or showed exactly one error
\* dialog and called no renderer; never neither, never both.
C8_ReportOrOneFailureNotice ==
    (pc = "idle" /\ runs > 0 /\ Len(articles) > 0) =>
        LET rendered == Occurs(log, "create_report") /\ ~Occurs(log, "RenderError")
            completed == Occurs(log, "show_dialog_completed")
            errors == Count(log, "show_dialog_error")
        IN  \/ rendered /\ completed /\ errors = 0
            \/ ~Occurs(log, "create_report") /\ ~completed /\ errors = 1

\* C9: the value run() returns when an article failed differs from what it
\* returns, or from the exception it ends with, when every article succeeded.
C9_FailureDistinguishable ==
    \A a \in returned : \A b \in returned :
        (a[1] = "failed" /\ a[2] = "None" /\ b[1] = "succeeded") => a[2] # b[2]

\* the text between the first and the second "." of u (or the end of u),
\* lower-cased; <<>> as a set when u has no "."
SecondLabel(u) ==
    {lower(SubSeq(u, i + 1, j - 1)) : <<i, j>> \in
        {<<i, j>> \in (1..Len(u)) \X (1..(Len(u) + 1)) :
            /\ i < j
            /\ u[i] = "."
            /\ \A k \in 1..(j - 1) : (u[k] = ".") = (k = i)
            /\ j <= Len(u) => u[j] = "."}}

\* t has text before and after a copy of s
HasSlice(s, t) ==
    \E i \in 0..Len(t) : \E j \in i..Len(t) :
        [k \in 1..(j - i) |-> t[i + k]] = s

\* C10: is_at_article(article) returns True exactly when the base domain of
\* the home URL is that of the current location and the lower-cased title
\* contains the lower-cased article; with both domains defined, making
\* either condition false makes it return False.
C10_IsAtArticleIffDomainAndTitle ==
    (call.fn = "is_at_article" /\ call.done) =>
        LET sameDomain == SecondLabel(url) # {}
                          /\ SecondLabel(url) = SecondLabel(page.location)
            inTitle == HasSlice(lower(call.article), lower(page.title))
        IN  /\ (call.out.exc = "None" /\ call.out.val) <=> (sameDomain /\ inTitle)
            /\ (SecondLabel(page.location) # {} /\ ~(sameDomain /\ inTitle))
                   => (call.out.exc = "None" /\ ~call.out.val)

\* is_at_article returned True for an article whose case differs from the
\* title's, on a location whose host is written in upper case
C10_Witness ==
    /\ call.fn = "is_at_article"
    /\ call.done
    /\ call.out.exc = "None"
    /\ call.out.val
    /\ call.article = alan_turing_lc
    /\ page.location = LocUpper

\* -------------------------- the robot's methods, called one at a time
\* (as the unit tests call them, outside run())
runVars == <<data, pc, articles, idx, result, runs, base, log, reported, returned>>

\* robot.open_browser()
CallOpenBrowser ==
    /\ Len(browser_ids) < MaxSessions
    /\ browser_ids' = open_available_browser(browser_ids)
    /\ page' = BlankPage
    /\ call' = [fn |-> "open_browser", before |-> browser_ids, out |-> Return(<<>>)]
    /\ UNCHANGED runVars

\* robot.close_browser()
CallCloseBrowser ==
    /\ browser_ids' = close_all_browsers(browser_ids)
    /\ page' = BlankPage
    /\ call' = [fn |-> "close_browser", before |-> browser_ids, out |-> Return(<<>>)]
    /\ UNCHANGED runVars

\* robot.is_browser_open()
CallIsBrowserOpen ==
    /\ call' = [fn |-> "is_browser_open", before |-> browser_ids,
                out |-> Return(is_browser_open(browser_ids))]
    /\ UNCHANGED <<browser_ids, page>>
    /\ UNCHANGED runVars

\* robot.search_article(article): needs a browser
CallSearchArticle ==
    \E a \in Subjects :
        /\ IF ~is_browser_open(browser_ids)
           THEN /\ call' = [fn |-> "search_article", before |-> browser_ids,
                            article |-> a,
                            out |-> Raise("NoSuchWindowException", <<>>)]
                /\ UNCHANGED page
           ELSE \E p \in WebPages :
                  /\ page' = p
                  /\ call' = [fn |-> "search_article", before |-> browser_ids,
                              article |-> a, out |-> Return(<<>>)]
        /\ UNCHANGED browser_ids
        /\ UNCHANGED runVars

\* robot.is_at_article(article): reads the location and the title
CallVerifyArticle ==
    \E a \in Subjects :
        /\ call' = [fn |-> "is_at_article", before |-> browser_ids,
                    article |-> a, done |-> TRUE,
                    out |-> IF is_browser_open(browser_ids)
                            THEN is_at_article(a, page.location, page.title)
                            ELSE Raise("NoSuchWindowException", FALSE)]
        /\ UNCHANGED <<browser_ids, page>>
        /\ UNCHANGED runVars

\* robot.get_content(article): opens a browser if none is open, searches,
\* verifies and extracts
CallGetContent ==
    \E a \in Subjects : \E p \in WebPages :
        LET v == is_at_article(a, p.location, p.title)
            r == extract_from_article(a, p)
        IN  /\ browser_ids' = IF is_browser_open(browser_ids) THEN browser_ids
                              ELSE open_available_browser(browser_ids)
            /\ page' = p
            /\ call' = [fn |-> "get_content", before |-> browser_ids,
                        article |-> a,
                        out |-> IF v.exc # "None" THEN Raise(v.exc, NoScientist)
                                ELSE IF ~v.val THEN Raise("RuntimeError", NoScientist)
                                ELSE r]
            /\ UNCHANGED runVars

\* robot.get_location(): NoSuchWindowException if no browser is open
CallGetLocation ==
    /\ call' = [fn |-> "get_location", before |-> browser_ids,
                out |-> IF is_browser_open(browser_ids)
                        THEN Return(page.location)
                        ELSE Raise("NoSuchWindowException", <<>>)]
    /\ UNCHANGED <<browser_ids, page>>
    /\ UNCHANGED runVars

\* robot.get_title(): NoSuchWindowException if no browser is open
CallGetTitle ==
    /\ call' = [fn |-> "get_title", before |-> browser_ids,
                out |-> IF is_browser_open(browser_ids)
                        THEN Return(page.title)
                        ELSE Raise("NoSuchWindowException", <<>>)]
    /\ UNCHANGED <<browser_ids, page>>
    /\ UNCHANGED runVars

NextSession ==
    \/ CallOpenBrowser
    \/ CallCloseBrowser
    \/ CallIsBrowserOpen
    \/ CallSearchArticle
    \/ CallVerifyArticle
    \/ CallGetContent
    \/ CallGetLocation
    \/ CallGetTitle

SpecSession == Init /\ [][NextSession]_vars

\* C11: after close_browser(), whether zero, one or several browsers were
\* open, no browser id is left, is_browser_open() is false, and the call
\* raised nothing.
C11_CloseClosesAll ==
    call.fn = "close_browser" =>
        /\ browser_ids = <<>>
        /\ ~is_browser_open(browser_ids)
        /\ call.out.exc = "None"

\* close_browser() was called with two browsers open
C11_Witness ==
    /\ call.fn = "close_browser"
    /\ Len(call.before) = 2
    /\ browser_ids = <<>>

\* close_browser() was called with no browser open
C11_WitnessNoneOpen ==
    /\ call.fn = "close_browser"
    /\ call.before = <<>>

\* C12 as stated: open_browser() on a robot with no browser leaves exactly
\* one, and called while a browser is open it leaves the browsers unchanged.
C12_OpenOnlyIfNoneOpen ==
    call.fn = "open_browser" =>
        IF call.before = <<>>
        THEN Len(browser_ids) = 1
        ELSE browser_ids = call.before

\* C12 amended: open_browser() always starts one more browser: with none
\* open it leaves exactly one, and with browsers open it keeps them and adds
\* one.
C12_OpenAlwaysAddsOne ==
    call.fn = "open_browser" =>
        /\ Len(browser_ids) = Len(call.before) + 1
        /\ SubSeq(browser_ids, 1, Len(call.before)) = call.before
        /\ call.before = <<>> => browser_ids = <<1>>

\* open_browser() was called while a browser was open
C12_Witness ==
    /\ call.fn = "open_browser"
    /\ Len(call.before) = 1
    /\ Len(browser_ids) = 2

\* a robot just constructed, for the calls of functions that use no browser
FreshRobot ==
    /\ data = <<>>
    /\ browser_ids = <<>>
    /\ page = BlankPage
    /\ pc = "idle"
    /\ articles = <<>>
    /\ idx = 0
    /\ result = "None"
    /\ runs = 0
    /\ base = 0
    /\ log = <<>>
    /\ reported = <<>>
    /\ returned = {}

\* ---------------------------------- WikiScientist(...), called on its own
Date(y, m, d) == [year |-> y, month |-> m, day |-> d]
AgeDates == {Date(y, m, d) : y \in {1912, 1953, 1954}, m \in {5, 6, 7},
                             d \in {6, 7, 23}}

InitAge ==
    /\ FreshRobot
    /\ \E b \in AgeDates : \E d \in AgeDates :
          call = [fn |-> "WikiScientist", name |-> AlanTuring,
                  date_of_birth |-> b, date_of_death |-> d,
                  summary |-> "Alan Mathison Turing ...",
                  done |-> FALSE, out |-> NoScientist]

\* WikiScientist(name, date_of_birth, date_of_death, summary)
CallWikiScientist ==
    /\ call.fn = "WikiScientist"
    /\ ~call.done
    /\ call' = [call EXCEPT !.done = TRUE,
                            !.out = WikiScientist(call.name, call.date_of_birth,
                                                  call.date_of_death, call.summary)]
    /\ UNCHANGED robotVars

NextAge == CallWikiScientist

SpecAge == InitAge /\ [][NextAge]_vars

\* (month, day) of a comes before (month, day) of b in the calendar year
MonthDayBefore(a, b) == 100 * a.month + a.day < 100 * b.month + b.day

\* the age the claims give a record born on b and dead on d
FullYears(b, d) == d.year - b.year - (IF MonthDayBefore(d, b) THEN 1 ELSE 0)

\* C13: the age of a record is the year of death minus the year of birth,
\* less one exactly when the (month, day) of death comes before that of
\* birth; born 1912-06-23 and dead 1954-06-07 gives 41.
C13_AgeIsFullYears ==
    (call.fn = "WikiScientist" /\ call.done) =>
        /\ call.out.age = FullYears(call.date_of_birth, call.date_of_death)
        /\ (call.date_of_birth = Date(1912, 6, 23)
            /\ call.date_of_death = Date(1954, 6, 7)) => call.out.age = 41

\* the record of the unit tests: death in the month of birth, on an earlier day
C13_Witness ==
    /\ call.fn = "WikiScientist"
    /\ call.done
    /\ call.date_of_birth = Date(1912, 6, 23)
    /\ call.date_of_death = Date(1954, 6, 7)
    /\ call.out.age = 41

\* -------------------------- _get_biography_date, called on its own
\* texts of a biography cell: a core between some "(" and some ")"
DateCores ==
    {<<"2", "0", "2", "0", "-", "0", "1", "-", "0", "1">>,
     <<"2", "0", "2", "0", "-", "1", "-", "1">>,
     <<"2", "0", "2", "0", "-", "0", "1", "-", "1">>,
     <<"2", "0", "2", "0", "-", "1", "-", "0", "1">>,
     <<"2", "0", "2", "0", "-", "1", "2", "-", "3", "1">>,
     <<"2", "0", "2", "0", "-", "0", "2", "-", "3", "0">>,
     <<"2", "0", "2", "0", "-", "0", "2", "-", "2", "9">>,
     <<"2", "0", "1", "9", "-", "0", "2", "-", "2", "9">>,
     <<"2", "0", "2", "0", "-", "1", "3", "-", "0", "1">>,
     <<"0", "1", "/", "0", "1", "/", "2", "0", "2", "0">>,
     <<"2", "0", "2", "0", "-", "0", "1", "-", " ", "1">>,
     <<"2", "0", "2", "0", "-", "0", "1", "-", "0", "1", "1">>,
     <<"0", "0", "0", "0", "-", "0", "1", "-", "0", "1">>,
     <<"1", "9", "5", "4", "-", "0", "6", "-", "0", "7">>,
     <<>>,
     <<"2", "0", "2", "0", "-", "0", "1">>,
     <<"2", "0", "-", "0", "1", "-", "0", "1">>,
     <<"2", "0", "2", "0", "-", "0", "0", "-", "1", "0">>,
     <<"2", "0", "2", "0", "-", "1", "-", "3", "2">>,
     <<"2", "0", "2", "0", "-", "1", "0", "-", "1">>}
DatePrefixes == {<<>>, <<"(">>, <<"(", "(">>}
DateSuffixes == {<<>>, <<")">>, <<")", ")">>}

InitDate ==
    /\ FreshRobot
    /\ \E c \in DateCores : \E pre \in DatePrefixes : \E suf \in DateSuffixes :
          call = [fn |-> "_get_biography_date", text |-> pre \o c \o suf,
                  done |-> FALSE, out |-> Return(NoDate)]

\* robot._get_biography_date(header) on a page whose cell has call.text
CallGetBiographyDate ==
    /\ call.fn = "_get_biography_date"
    /\ ~call.done
    /\ call' = [call EXCEPT !.done = TRUE,
                            !.out = _get_biography_date(<<call.text>>)]
    /\ UNCHANGED robotVars

NextDate == CallGetBiographyDate

SpecDate == InitDate /\ [][NextDate]_vars

\* t without one leading "(" and, of what is left, one trailing ")"
StripOnce(t) ==
    LET a == IF Len(t) > 0 /\ t[1] = "(" THEN 1 ELSE 0
        b == IF Len(t) > a /\ t[Len(t)] = ")" THEN 1 ELSE 0
    IN  [i \in 1..(Len(t) - a - b) |-> t[i + a]]

\* decimal digits of n, and n padded with zeros to w digits
RECURSIVE Dec(_)
Dec(n) == IF n < 10 THEN <<Digits[n + 1]>> ELSE Dec(n \div 10) \o <<Digits[(n % 10) + 1]>>
PadAux(s, w) == [i \in 1..w |-> IF i <= w - Len(s) THEN "0" ELSE s[i - (w - Len(s))]]
ZeroPad(n, w) == IF Len(Dec(n)) >= w THEN Dec(n) ELSE PadAux(Dec(n), w)

MonthLengths == <<31, 28, 31, 30, 31, 30, 31, 31, 30, 31, 30, 31>>
ValidDate(y, m, d) ==
    /\ y \in 1..9999
    /\ m \in 1..12
    /\ d >= 1
    /\ d <= IF m = 2 /\ y % 4 = 0 /\ (y % 100 # 0 \/ y % 400 = 0)
            THEN 29 ELSE MonthLengths[m]

\* t is exactly YYYY-MM-DD: ten characters, digits around two "-"
IsoShape(t) ==
    /\ Len(t) = 10
    /\ \A i \in {1, 2, 3, 4, 6, 7, 9, 10} : IsDigit(t[i])
    /\ t[5] = "-"
    /\ t[8] = "-"

\* the ways strptime accepts the date y-m-d written
Writings(y, m, d) ==
    {ZeroPad(y, 4) \o <<"-">> \o ms \o <<"-">> \o ds :
        ms \in {Dec(m), ZeroPad(m, 2)},
        ds \in {Dec(d), ZeroPad(d, 2)} \cup (IF d < 10 THEN {<<" ">> \o Dec(d)} ELSE {})}

\* the dates of which t is a writing (the year is t's first four characters)
DatesWritten(t) ==
    IF Len(t) < 4 \/ \E i \in 1..4 : ~IsDigit(t[i])
    THEN {}
    ELSE {Date(Num(SubSeq(t, 1, 4)), m, d) : <<m, d>> \in
            {<<m, d>> \in (1..12) \X (1..31) :
                /\ ValidDate(Num(SubSeq(t, 1, 4)), m, d)
                /\ t \in Writings(Num(SubSeq(t, 1, 4)), m, d)}}

\* C14 as stated: the date parsing succeeds only on a text that, less one
\* leading "(" and one trailing ")", is exactly of the shape YYYY-MM-DD, and
\* returns that date; any other text fails.
C14_ParsesOnlyIsoShape ==
    (call.fn = "_get_biography_date" /\ call.done /\ call.out.exc = "None") =>
        /\ IsoShape(StripOnce(call.text))
        /\ call.out.val \in DatesWritten(StripOnce(call.text))

\* C14 amended: the date parsing strips at most one leading "(" and one
\* trailing ")" and succeeds exactly when what is left writes a date of the
\* calendar as a four-digit year, "-", the month, "-", the day, the month
\* with or without its leading zero, the day with or without its leading
\* zero or with a leading space; it returns that date, and fails with
\* ValueError otherwise.
C14_ParsesPaddedOrUnpadded ==
    (call.fn = "_get_biography_date" /\ call.done) =>
        LET written == DatesWritten(StripOnce(call.text))
        IN  /\ (call.out.exc = "None") <=> (written # {})
            /\ call.out.exc = "None" => call.out.val \in written
            /\ call.out.exc # "None" => call.out.exc = "ValueError"

\* "(2020-1-1)" was parsed, to 2020-01-01
C14_Witness ==
    /\ call.fn = "_get_biography_date"
    /\ call.done
    /\ call.text = <<"(", "2", "0", "2", "0", "-", "1", "-", "1", ")">>
    /\ call.out = Return(Date(2020, 1, 1))

\* ------------------------------------ get_domain, called on its own
MaxLabels == 4

Https == <<"h", "t", "t", "p", "s", ":", "/", "/">>
Wikipedia == <<"w", "i", "k", "i", "p", "e", "d", "i", "a">>
DomainLabels == {<<"w", "w", "w">>, <<"e", "n">>, Wikipedia,
                 <<"W", "I", "K", "I", "P", "E", "D", "I", "A">>, <<"o", "r", "g">>}
DomainPaths == {<<>>, <<"/", "w", "i", "k", "i", "/", "A", "l", "a", "n", "_", "T", "u", "r", "i", "n", "g">>,
                <<"/", "w", "i", "k", "i", "/", "d", "o", "m", "a", "i", "n">>,
                <<"/", "w", "/", "i", "n", "d", "e", "x", ".", "p", "h", "p">>}
\* the example of get_domain's docstring
DocExampleUrl == <<"h", "t", "t", "p", "s", ":", "/", "/", "w", "w", "w", ".", "e", "n", ".", "w", "i", "k", "i", "p", "e", "d", "i", "a", ".", "o", "r", "g", "/", "w", "i", "k", "i", "/", "d", "o", "m", "a", "i", "n">>

\* labels joined by "."
RECURSIVE JoinDots(_)
JoinDots(labels) ==
    IF Len(labels) = 1 THEN labels[1]
    ELSE labels[1] \o <<".">> \o JoinDots(Tail(labels))

DomainUrls ==
    {Https \o JoinDots(h) \o p :
        h \in UNION {[1..n -> DomainLabels] : n \in 1..MaxLabels},
        p \in DomainPaths}

InitDomain ==
    /\ FreshRobot
    /\ \E u \in DomainUrls :
          call = [fn |-> "get_domain", url |-> u, done |-> FALSE,
                  out |-> Return(<<>>)]

\* robot.get_domain(url)
CallGetDomain ==
    /\ call.fn = "get_domain"
    /\ ~call.done
    /\ call' = [call EXCEPT !.done = TRUE, !.out = get_domain(call.url)]
    /\ UNCHANGED robotVars

NextDomain == CallGetDomain

SpecDomain == InitDomain /\ [][NextDomain]_vars

\* C15: get_domain(url) returns the text between the first and the second
\* "." of url, lower-cased (it returns nothing when url has no "."); for
\* https://en.wikipedia.org/wiki/Alan_Turing and for the home URL
\* https://www.wikipedia.org it returns "wikipedia".
C15_DomainIsSecondComponent ==
    /\ get_domain(url) = Return(Wikipedia)
    /\ (call.fn = "get_domain" /\ call.done) =>
          /\ (call.out.exc = "None") <=> (SecondLabel(call.url) # {})
          /\ call.out.exc = "None" => SecondLabel(call.url) = {call.out.val}
          /\ call.url \in {LocTuring, url} => call.out = Return(Wikipedia)

\* get_domain returned "wikipedia" for the article of the unit tests
C15_Witness ==
    /\ call.fn = "get_domain"
    /\ call.done
    /\ call.url = LocTuring
    /\ call.out = Return(Wikipedia)

\* C16: get_domain returns "wikipedia" for the URL of its docstring,
\* https://www.en.wikipedia.org/wiki/domain.
C16_DocExampleIsWikipedia ==
    (call.fn = "get_domain" /\ call.done /\ call.url = DocExampleUrl) =>
        call.out = Return(Wikipedia)

\* ------------------------------ WikiScientist.__eq__, called on its own
\* a Python object: its class and its attributes
Object(cls, attrs) == [cls |-> cls, attrs |-> attrs]

\* __eq__ without the comparison of the ages
__eq__IgnoringAge(self, other) ==
    IF other.cls # "WikiScientist" THEN FALSE
    ELSE IF self.name # other.attrs.name THEN FALSE
    ELSE IF self.date_of_birth # other.attrs.date_of_birth THEN FALSE
    ELSE IF self.date_of_death # other.attrs.date_of_death THEN FALSE
    ELSE IF self.summary # other.attrs.summary THEN FALSE
    ELSE TRUE

\* WikiScientist.__eq__(self, other), self a WikiScientist
__eq__(self, other) ==
    IF other.cls # "WikiScientist" THEN FALSE
    ELSE IF self.name # other.attrs.name THEN FALSE
    ELSE IF self.date_of_birth # other.attrs.date_of_birth THEN FALSE
    ELSE IF self.date_of_death # other.attrs.date_of_death THEN FALSE
    ELSE IF self.age # other.attrs.age THEN FALSE
    ELSE IF self.summary # other.attrs.summary THEN FALSE
    ELSE TRUE

\* records made by the constructor, and the same with the attribute age
\* assigned afterwards
EqBuilt ==
    {WikiScientist(n, b, d, t) :
        n \in {AlanTuring, MarieCurie},
        b \in {Date(1912, 6, 23), Date(1867, 11, 7)},
        d \in {Date(1954, 6, 7), Date(1934, 7, 4)},
        t \in {"Alan Mathison Turing ...", "Maria Salomea Sklodowska-Curie ..."}}
EqRecords == EqBuilt \cup {[r EXCEPT !.age = r.age + 1] : r \in EqBuilt}
\* the values a record is compared with: records, and objects of another
\* class with the same attributes
EqOthers == {Object(c, r) : c \in {"WikiScientist", "dict"}, r \in EqRecords}

InitEq ==
    /\ FreshRobot
    /\ \E r \in EqRecords : \E o \in EqOthers :
          call = [fn |-> "__eq__", self |-> r, other |-> o, done |-> FALSE,
                  out |-> FALSE]

\* self == other
CallEq ==
    /\ call.fn = "__eq__"
    /\ ~call.done
    /\ call' = [call EXCEPT !.done = TRUE, !.out = __eq__(call.self, call.other)]
    /\ UNCHANGED robotVars

NextEq == CallEq

SpecEq == InitEq /\ [][NextEq]_vars

RecordFields == {"name", "date_of_birth", "date_of_death", "age", "summary"}

\* C17: a record equals another value exactly when that value is a record
\* and the five fields are equal; a difference in any one field makes them
\* unequal, and a value of another class is never equal.
C17_EqualIffAllFieldsEqual ==
    (call.fn = "__eq__" /\ call.done) =>
        /\ call.out <=> (/\ call.other.cls = "WikiScientist"
                         /\ \A f \in RecordFields : call.self[f] = call.other.attrs[f])
        /\ \A f \in RecordFields :
              call.self[f] # call.other.attrs[f] => ~call.out
        /\ call.other.cls # "WikiScientist" => ~call.out

\* two records that differ in the age alone were found unequal
C17_Witness ==
    /\ call.fn = "__eq__"
    /\ call.done
    /\ call.other.cls = "WikiScientist"
    /\ call.self.age # call.other.attrs.age
    /\ \A f \in RecordFields \ {"age"} : call.self[f] = call.other.attrs[f]
    /\ ~call.out

\* C18: every record in self.data, and every record handed to the report
\* renderer, has the age of its own date_of_birth and date_of_death.
C18_AgeFollowsDates ==
    /\ \A i \in 1..Len(data) :
          data[i].age = FullYears(data[i].date_of_birth, data[i].date_of_death)
    /\ \A i \in 1..Len(reported) :
          reported[i].age = FullYears(reported[i].date_of_birth,
                                      reported[i].date_of_death)

\* a report of two records of different ages was handed to the renderer
C18_Witness ==
    /\ Len(reported) >= 2
    /\ \E i \in 1..Len(reported) : reported[i].age = 41
    /\ \E i \in 1..Len(reported) : reported[i].age = 66

\* the calls of the else clause of run() and of report(), in the log
IsSuccessStep(e) == e \in {"close_browser", "create_report", "show_dialog_completed"}

\* C19: when every article succeeded, run() calls close_browser, then
\* create_report, then show_dialog_completed, each at most once and, when
\* run() returns, each exactly once in this order; create_report is never
\* called with a browser open, nor show_dialog_completed before the report
\* was made.
C19_CloseThenReportThenCompleted ==
    /\ pc = "create_report" => ~is_browser_open(browser_ids)
    /\ \A i \in 1..Len(log) :
          /\ log[i] = "create_report" =>
                \E j \in 1..(i - 1) : log[j] = "close_browser"
          /\ log[i] = "show_dialog_completed" =>
                /\ \E j \in 1..(i - 1) : log[j] = "create_report"
                /\ ~Occurs(log, "RenderError")
    /\ ~SubjectFailed =>
          /\ Count(log, "close_browser") <= 1
          /\ Count(log, "create_report") <= 1
          /\ Count(log, "show_dialog_completed") <= 1
    /\ (pc = "idle" /\ Outcome(log) = "succeeded" /\ result = "None") =>
          SelectSeq(log, IsSuccessStep)
              = <<"close_browser", "create_report", "show_dialog_completed">>

\* a run() of two articles that returned after the completion dialog,
\* started with a browser open
C19_Witness ==
    /\ pc = "idle"
    /\ Len(articles) = 2
    /\ Outcome(log) = "succeeded"
    /\ result = "None"
    /\ Occurs(log, "show_dialog_completed")
    /\ ~Occurs(log, "open_browser")

\* the browser is at the article a, as the claims put it
AtArticle(a) ==
    /\ SecondLabel(url) # {}
    /\ SecondLabel(url) = SecondLabel(page.location)
    /\ HasSlice(lower(a), lower(page.title))

\* C20: for each article run() navigates, then verifies, then extracts;
\* extract_from_article is called only right after an is_at_article that
\* came right after the article's search_article and returned True; when
\* is_at_article returns False the article fails with RuntimeError and
\* extract_from_article is not called.
C20_NavigateVerifyExtract ==
    /\ \A i \in 1..Len(log) :
          /\ log[i] = "is_at_article" => (i > 1 /\ log[i - 1] = "search_article")
          /\ log[i] = "extract_from_article" =>
                (i > 2 /\ log[i - 1] = "is_at_article"
                       /\ log[i - 2] = "search_article")
          /\ log[i] = "RuntimeError" =>
                /\ i > 1 /\ log[i - 1] = "is_at_article"
                /\ \A j \in (i + 1)..Len(log) : log[j] # "extract_from_article"
    /\ pc = "extract_from_article" => AtArticle(articles[idx])
    /\ (pc = "except_close" /\ log[Len(log)] = "RuntimeError") =>
          ~AtArticle(articles[idx])
    /\ (pc = "except_close" /\ log[Len(log) - 1] = "is_at_article"
                            /\ ~AtArticle(articles[idx])
                            /\ SecondLabel(page.location) # {}) =>
          log[Len(log)] = "RuntimeError"

\* the second article of a run() failed is_at_article after the first was
\* extracted
C20_Witness ==
    /\ pc = "except_close"
    /\ idx = 2
    /\ log[Len(log)] = "RuntimeError"
    /\ Len(data) = base + 1
    /\ Count(log, "extract_from_article") = 1

\* C21: while run() runs, a browser is opened only by get_content and only
\* when none is open at that moment; so a run() started with no session
\* open never has more than one.
C21_OneSessionPerRun ==
    [][pc # "idle" =>
          /\ Len(browser_ids') > Len(browser_ids) =>
                /\ pc = "get_content"
                /\ ~is_browser_open(browser_ids)
                /\ Len(browser_ids') = 1
          /\ Len(browser_ids) <= 1 => Len(browser_ids') <= 1]_vars

\* the second article of a run() is about to be searched in the session
\* that get_content opened for the first
C21_Witness ==
    /\ pc = "search_article"
    /\ idx = 2
    /\ Count(log, "open_browser") = 1
    /\ Count(log, "extract_from_article") = 1
    /\ Len(browser_ids) = 1

\* the calls of get_content that navigate or read the page
PageOps == {"search_article", "is_at_article", "extract_from_article"}

\* C22: run() is about to navigate, verify or extract only with a browser
\* open, so none of these calls finds the window gone; and after run() has
\* called close_browser it makes no further such call.
C22_ReadsOnlyWhileOpen ==
    /\ pc \in PageOps => is_browser_open(browser_ids)
    /\ ~Occurs(log, "NoSuchWindowException")
    /\ \A i \in 1..Len(log) :
          log[i] = "close_browser" =>
              \A j \in (i + 1)..Len(log) : log[j] \notin PageOps

\* a run() that read two articles and then closed the browser
C22_Witness ==
    /\ pc \in {"create_report", "show_dialog_error"}
    /\ Count(log, "search_article") = 2
    /\ Count(log, "is_at_article") = 2
    /\ Occurs(log, "close_browser")
    /\ ~is_browser_open(browser_ids)

\* C23: a run() that accepted its arguments calls show_dialog_start exactly
\* once, as the first thing it does, before any open_browser or navigation;
\* when show_dialog_start raises, run() ends there, having opened no
\* browser and navigated nowhere.
C23_StartShownOnceFirst ==
    /\ Count(log, "show_dialog_start") <= 1
    /\ (Len(articles) > 0 /\ pc # "instructions") =>
          /\ Len(log) > 0
          /\ log[1] = "show_dialog_start"
    /\ \A i \in 1..Len(log) :
          log[i] \in ArticleOps => (i > 1 /\ log[1] = "show_dialog_start")
    /\ (Len(log) >= 2 /\ log[1] = "show_dialog_start" /\ log[2] = "DialogError") =>
          /\ pc = "idle"
          /\ result = "DialogError"
          /\ Len(log) = 2

\* run() opened a browser for its first article right after the start
\* dialog
C23_Witness ==
    /\ pc = "search_article"
    /\ idx = 1
    /\ log = <<"show_dialog_start", "open_browser">>
    /\ Len(browser_ids) = 1

\* a date as one number, in calendar order
Ord(d) == 10000 * d.year + 100 * d.month + d.day

\* C24: a record built with date_of_death on or after date_of_birth has an
\* age of at least 0, and of exactly 0 when the death comes before the first
\* anniversary of the birth.
C24_AgeNotNegative ==
    (call.fn = "WikiScientist" /\ call.done
        /\ Ord(call.date_of_birth) <= Ord(call.date_of_death)) =>
        /\ call.out.age >= 0
        /\ Ord(call.date_of_death) < Ord(call.date_of_birth) + 10000 =>
              call.out.age = 0

\* a record of someone who died the year after the birth, before the
\* first birthday
C24_Witness ==
    /\ call.fn = "WikiScientist"
    /\ call.done
    /\ call.date_of_death.year = call.date_of_birth.year + 1
    /\ Ord(call.date_of_death) < Ord(call.date_of_birth) + 10000
    /\ call.out.age = 0

\* C25: run() called with an empty list ends at once with AssertionError:
\* no dialog is shown, no browser call is made, nothing is handed to the
\* renderer, and self.data, the open sessions and the page are as they were.
C25_EmptyListRejected ==
    [][(pc = "idle" /\ runs' = runs + 1 /\ articles' = <<>>) =>
          /\ pc' = "idle"
          /\ result' = "AssertionError"
          /\ log' = <<"AssertionError">>
          /\ reported' = <<>>
          /\ data' = data
          /\ browser_ids' = browser_ids
          /\ page' = page]_vars

\* run() was called with an empty list on a robot that holds a record
C25_Witness ==
    /\ pc = "idle"
    /\ runs > 0
    /\ articles = <<>>
    /\ log = <<"AssertionError">>
    /\ result = "AssertionError"
    /\ Len(data) > 0
    /\ Len(data) = base

====
